---- MODULE Spec2Model ----
(***************************************************************************)
(* A model of src/main.py: the ThriftBooks scraper.                        *)
(*                                                                         *)
(*   get_book_links       the pagination / link-collection loop            *)
(*   scrape_book_details  the per-link detail extraction loop              *)
(*   save_to_csv          the tabular writer                               *)
(*   main                 session creation, the three steps, teardown      *)
(*                                                                         *)
(* The browser and the web site are the environment: what a wait, a        *)
(* lookup or a page read gives is drawn from a small set when the code     *)
(* asks for it.  Python strings (links, button texts, titles, prices) are   *)
(* sequences of one-character strings; dictionary keys are TLA+ strings.   *)
(***************************************************************************)
EXTENDS Integers, Sequences, FiniteSets, TLC

\* ------------------------------------------------------------- bounds
MaxPages    == 2   \* listing pages of the site
MaxPerPage  == 3   \* item elements on one listing page
MaxLinksArg == 2   \* largest max_links argument tried
MaxLinksIn  == 2   \* longest link list handed to scrape_book_details
MaxButtons  == 2   \* price buttons on one detail page

\* ------------------------------------------------------------- values
\* Python's None for an optional int argument: None is <<>>, the int n is <<n>>.
None == <<>>
Some(n) == <<n>>

\* Python's None where a string may stand (an attribute that is not set).  No
\* modelled string equals it: strings are sequences of one-character strings.
PyNone == <<"<None>">>

\* The links of the site (hrefs), strings like every other.  NoHref is the href of
\* an item whose attribute is empty; one whose attribute is missing (None) is
\* as falsy at line 49 and is not told apart.
LinkA == <<"A">>
LinkB == <<"B">>
LinkC == <<"C">>
LinkD == <<"D">>
NoHref == <<>>
Hrefs == {LinkA, LinkB, LinkC, LinkD}
\* What the href of an item element can be: on the site, and on the smaller
\* site of the runs of main.
ItemHrefs == {NoHref, LinkA, LinkB, LinkC, LinkD}
MainItemHrefs == {NoHref, LinkA, LinkB}

Range(s) == {s[k] : k \in DOMAIN s}
SeqsUpTo(S, n) == UNION {[1..m -> S] : m \in 0..n}

VARIABLES
    \* ---- main
    mpc,            \* position of main: "harness" when a function is driven alone
    driver,         \* "none" | "live" | "quit": the browser session
    quits,          \* history: number of driver.quit() calls
    usedAfterQuit,  \* history: a driver call was made after driver.quit()
    propagating,    \* an exception is propagating out of main's try block
    startNav,       \* history: "" | "ok" | "raised": the driver.get of the start URL
    steps,          \* history: the steps main has started, in order
    main_links,     \* main's book_links (what get_book_links returned)
    book_data,      \* main's book_data (what scrape_book_details returned)
    csv,            \* the output file: <<>> when not written, else <<header, rows>>
    saveArg,        \* history: the data argument of each save_to_csv call
    \* ---- get_book_links
    cpc,            \* "idle" | "wait" | "read" | "next" | "done"
    max_links,      \* the max_links argument
    book_links,     \* the accumulated list
    page,           \* the listing page the browser shows
    numPages,       \* the site: number of listing pages
    exitBy,         \* how get_book_links ended: "max_links", "last_page", "no_next",
                    \* "error" (caught at line 79) or "raised" (left to the caller)
    encountered,    \* history: first occurrences of the hrefs read so far
    sawDup,         \* history: an href already collected was read again
    clicks,         \* history: activations of the next control per page (capped at 2)
    enabledSeen,    \* history: pages whose next control was enabled and activated without error
    timedOut,       \* history: the item-presence wait expired
    \* ---- scrape_book_details
    epc,            \* "idle" | "loop" | "done"
    links,          \* the links argument (after the max_links cut)
    idx,            \* links already visited
    results,        \* the accumulated rows
    visits,         \* history: per visited link, what the detail page was and did
    ecaller         \* history: an exception left scrape_book_details

mainVars    == <<mpc, driver, quits, usedAfterQuit, propagating, startNav, steps, main_links, book_data, csv, saveArg>>
collectVars == <<cpc, max_links, book_links, page, numPages, exitBy, encountered, sawDup, clicks, enabledSeen, timedOut>>
extractVars == <<epc, links, idx, results, visits, ecaller>>
vars == <<mainVars, collectVars, extractVars>>

\* Every call on the driver goes through here: it notes a use after teardown.
UseDriver == usedAfterQuit' = (usedAfterQuit \/ driver = "quit")

\* =================================================== get_book_links

\* line 49: if href and href not in book_links
IsNewLink_NoDedup(href, acc) == href # NoHref
IsNewLink(href, acc) == href # NoHref /\ href \notin Range(acc)

\* line 53: if max_links is not None and len(book_links) >= max_links
ReachedMax(ml, acc) == ml # None /\ Len(acc) >= ml[1]

\* lines 47-55: the for loop over link_elements.  st.n elements have had their
\* href read; failAt is the element whose get_attribute raises (0: none does).
\* stop is "none" (loop ran out), "max" (return at line 55) or "raise".
RECURSIVE ForLinkElements(_, _, _, _)
ForLinkElements(els, failAt, ml, st) ==
    IF st.n = Len(els) THEN st
    ELSE IF st.n + 1 = failAt THEN [st EXCEPT !.stop = "raise"]
    ELSE LET href == els[st.n + 1] IN
         IF IsNewLink(href, st.links)
         THEN LET nl == Append(st.links, href) IN
              IF ReachedMax(ml, nl)
              THEN [st EXCEPT !.links = nl, !.n = st.n + 1, !.stop = "max"]
              ELSE ForLinkElements(els, failAt, ml, [st EXCEPT !.links = nl, !.n = st.n + 1])
         ELSE ForLinkElements(els, failAt, ml,
                  [st EXCEPT !.n = st.n + 1, !.dup = st.dup \/ href \in Range(st.links)])

\* What "first-seen order without repeats" means, said without the loop: the
\* non-empty entries of s, each kept at its first position only.
FirstPositions(s) == {k \in DOMAIN s : s[k] # NoHref /\ \A j \in 1..(k - 1) : s[j] # s[k]}
RECURSIVE PickInOrder(_, _, _)
PickInOrder(s, K, from) ==
    IF from > Len(s) THEN <<>>
    ELSE IF from \in K THEN <<s[from]>> \o PickInOrder(s, K, from + 1)
    ELSE PickInOrder(s, K, from + 1)
FirstOccurrences(s) == PickInOrder(s, FirstPositions(s), 1)

NoRepeats(s) == \A j, k \in DOMAIN s : j # k => s[j] # s[k]

\* lines 20-33: the call.  book_links = [] and the loop is entered.
EnterCollect(ml) ==
    /\ cpc' = "wait"
    /\ max_links' = ml
    /\ book_links' = <<>>
    /\ exitBy' = ""
    /\ encountered' = <<>>
    /\ sawDup' = FALSE
    /\ clicks' = [p \in 1..numPages |-> 0]
    /\ enabledSeen' = {}
    /\ timedOut' = FALSE
    /\ UNCHANGED <<page, numPages>>

\* lines 38-41 (and 79-82 when the wait expires): wait for the item elements.
WaitTimeout_Raise ==
    /\ timedOut' = TRUE
    /\ cpc' = "done"
    /\ exitBy' = "raised"
WaitTimeout ==
    /\ timedOut' = TRUE
    /\ cpc' = "done"
    /\ exitBy' = "error"

WaitItems ==
    /\ cpc = "wait"
    /\ UseDriver
    /\ \E present \in BOOLEAN :
          IF present
          THEN /\ cpc' = "read"
               /\ UNCHANGED <<exitBy, timedOut>>
          ELSE WaitTimeout
    /\ UNCHANGED <<max_links, book_links, page, numPages, encountered, sawDup, clicks, enabledSeen>>
    /\ UNCHANGED <<mpc, driver, quits, propagating, startNav, steps, main_links, book_data, csv, saveArg>>
    /\ UNCHANGED extractVars

\* lines 44-57: read the page's item elements and run the for loop.
ReadPage(pool) ==
    /\ cpc = "read"
    /\ UseDriver
    /\ \E link_elements \in SeqsUpTo(pool, MaxPerPage) :
       \E failAt \in 0..Len(link_elements) :
          LET r == ForLinkElements(link_elements, failAt, max_links,
                                   [links |-> book_links, n |-> 0, dup |-> FALSE, stop |-> "none"])
          IN /\ book_links' = r.links
             /\ encountered' = FirstOccurrences(encountered \o SubSeq(link_elements, 1, r.n))
             /\ sawDup' = (sawDup \/ r.dup)
             /\ cpc' = IF r.stop = "none" THEN "next" ELSE "done"
             /\ exitBy' = CASE r.stop = "none"  -> exitBy
                            [] r.stop = "max"   -> "max_links"
                            [] r.stop = "raise" -> "error"
    /\ UNCHANGED <<max_links, page, numPages, clicks, enabledSeen, timedOut>>
    /\ UNCHANGED <<mpc, driver, quits, propagating, startNav, steps, main_links, book_data, csv, saveArg>>
    /\ UNCHANGED extractVars

True == <<"t", "r", "u", "e">>
False == <<"f", "a", "l", "s", "e">>

\* The next control as the wait of line 61 and the reads of lines 65-66 give it:
\* found is whether the wait returned it before the timeout.
NextControls == [found : BOOLEAN, disabled : {PyNone, True}, aria : {PyNone, False, True}]

\* The site: a control with either attribute set does nothing when activated,
\* and a finite listing ends with a page whose control is absent or such a one.
Inert(ctl) == ctl.disabled # PyNone \/ ctl.aria = True
ControlsOn(p) ==
    IF p = numPages THEN {c \in NextControls : ~c.found \/ Inert(c)} ELSE NextControls

\* lines 64-67
is_disabled_AttrOnly(next_button) == next_button.disabled # PyNone
is_disabled(next_button) == next_button.disabled # PyNone \/ next_button.aria = True

Bump(f, p) == [f EXCEPT ![p] = IF @ < 2 THEN @ + 1 ELSE 2]

\* lines 60-77: the next-page control.
NextButton ==
    /\ cpc = "next"
    /\ UseDriver
    /\ \E next_button \in ControlsOn(page), clickRaises \in BOOLEAN :
          IF ~next_button.found
          THEN \* the wait of line 61 expires: lines 75-77
               /\ cpc' = "done" /\ exitBy' = "no_next"
               /\ UNCHANGED <<page, clicks, enabledSeen>>
          ELSE IF is_disabled(next_button)
          THEN \* lines 69-71
               /\ cpc' = "done" /\ exitBy' = "last_page"
               /\ UNCHANGED <<page, clicks, enabledSeen>>
          ELSE \* line 73: the scripted click
               /\ clicks' = Bump(clicks, page)
               /\ IF clickRaises
                  THEN \* lines 75-77 again
                       /\ cpc' = "done" /\ exitBy' = "no_next"
                       /\ UNCHANGED <<page, enabledSeen>>
                  ELSE /\ cpc' = "wait" /\ UNCHANGED exitBy
                       /\ IF Inert(next_button)
                          THEN UNCHANGED <<page, enabledSeen>>
                          ELSE /\ page' = page + 1
                               /\ enabledSeen' = enabledSeen \cup {page}
    /\ UNCHANGED <<max_links, book_links, numPages, encountered, sawDup, timedOut>>
    /\ UNCHANGED <<mpc, driver, quits, propagating, startNav, steps, main_links, book_data, csv, saveArg>>
    /\ UNCHANGED extractVars

\* ---------------------------------------------------------------------
\* get_book_links driven alone, with any max_links argument.
InitMainIdle ==
    /\ mpc = "harness" /\ driver = "live" /\ quits = 0 /\ usedAfterQuit = FALSE
    /\ propagating = FALSE /\ startNav = "" /\ steps = <<>> /\ main_links = <<>> /\ book_data = <<>>
    /\ csv = <<>> /\ saveArg = <<>>
InitExtractIdle ==
    /\ epc = "idle" /\ links = <<>> /\ idx = 0 /\ results = <<>> /\ visits = <<>>
    /\ ecaller = FALSE

MaxLinksArgs == {None} \cup {Some(n) : n \in 0..MaxLinksArg}

InitCollect ==
    /\ InitMainIdle
    /\ InitExtractIdle
    /\ numPages \in 1..MaxPages
    /\ page = 1
    /\ cpc = "wait"
    /\ max_links \in MaxLinksArgs
    /\ book_links = <<>>
    /\ exitBy = ""
    /\ encountered = <<>>
    /\ sawDup = FALSE
    /\ clicks = [p \in 1..numPages |-> 0]
    /\ enabledSeen = {}
    /\ timedOut = FALSE

ReadListingPage == ReadPage(ItemHrefs)

NextCollect == WaitItems \/ ReadListingPage \/ NextButton

SpecCollect == InitCollect /\ [][NextCollect]_vars
\* The loop is sequential and its waits end by their timeouts (20 s and 10 s): a
\* step that can be taken is taken.
FairCollect == InitCollect /\ [][NextCollect]_vars /\ WF_vars(NextCollect)

\* ============================================== scrape_book_details

\* ---- Python's str, on sequences of characters
Whitespace == {" ", "\t", "\n"}

\* str.startswith
StartsWith(text, sub) == Len(sub) <= Len(text) /\ SubSeq(text, 1, Len(sub)) = sub

\* sub in text
Contains(text, sub) ==
    \E k \in 1..(Len(text) - Len(sub) + 1) : SubSeq(text, k, k + Len(sub) - 1) = sub

\* text.replace(old, ""): every occurrence of old, left to right, is dropped
RECURSIVE Replace(_, _)
Replace(text, old) ==
    IF text = <<>> THEN <<>>
    ELSE IF StartsWith(text, old) THEN Replace(SubSeq(text, Len(old) + 1, Len(text)), old)
    ELSE <<Head(text)>> \o Replace(Tail(text), old)

\* str.strip
RECURSIVE LStrip(_)
LStrip(text) ==
    IF text # <<>> /\ Head(text) \in Whitespace THEN LStrip(Tail(text)) ELSE text
RECURSIVE RStrip(_)
RStrip(text) ==
    IF text # <<>> /\ text[Len(text)] \in Whitespace
    THEN RStrip(SubSeq(text, 1, Len(text) - 1)) ELSE text
Strip(text) == RStrip(LStrip(text))

NA == <<"N", "/", "A">>

\* lines 125-128: the format catalog, in its order, and the characters of each label
formats ==
    <<"Hardcover", "Paperback", "Library Binding", "Like New",
      "Very Good", "Good", "Acceptable", "New">>
Chars ==
    [fmt \in {"Hardcover", "Paperback", "Library Binding", "Like New", "Very Good", "Good", "Acceptable", "New"} |->
        CASE fmt = "Hardcover" -> <<"H", "a", "r", "d", "c", "o", "v", "e", "r">>
          [] fmt = "Paperback" -> <<"P", "a", "p", "e", "r", "b", "a", "c", "k">>
          [] fmt = "Library Binding" -> <<"L", "i", "b", "r", "a", "r", "y", " ", "B", "i", "n", "d", "i", "n", "g">>
          [] fmt = "Like New" -> <<"L", "i", "k", "e", " ", "N", "e", "w">>
          [] fmt = "Very Good" -> <<"V", "e", "r", "y", " ", "G", "o", "o", "d">>
          [] fmt = "Good" -> <<"G", "o", "o", "d">>
          [] fmt = "Acceptable" -> <<"A", "c", "c", "e", "p", "t", "a", "b", "l", "e">>
          [] fmt = "New" -> <<"N", "e", "w">>]

\* d[k] = v of a Python dict: the key is added when it is not there
SetItem(d, k, v) == [x \in DOMAIN d \cup {k} |-> IF x = k THEN v ELSE d[x]]

\* line 129: prices_dict = {fmt: "N/A" for fmt in formats}
prices_dict_Empty == [fmt \in {} |-> NA]
prices_dict_init == [fmt \in Range(formats) |-> NA]

\* line 136: if text.startswith(fmt) or fmt in text
FormatMatches(text, fmt) == StartsWith(text, Chars[fmt]) \/ Contains(text, Chars[fmt])

\* lines 138-139
clean_price(text, fmt) == Strip(Replace(text, Chars[fmt]))
PriceOrNA(clean) == IF clean # <<>> THEN clean ELSE NA

\* lines 135-139: for fmt in formats, from the k-th on
RECURSIVE ForFormats(_, _, _)
ForFormats(text, k, d) ==
    IF k > Len(formats) THEN d
    ELSE LET fmt == formats[k] IN
         IF FormatMatches(text, fmt)
         THEN ForFormats(text, k + 1, SetItem(d, fmt, PriceOrNA(clean_price(text, fmt))))
         ELSE ForFormats(text, k + 1, d)

\* lines 133-139: for btn in price_buttons, from the k-th on; text = btn.text.strip()
RECURSIVE ForButtons(_, _, _)
ForButtons(price_buttons, k, d) ==
    IF k > Len(price_buttons) THEN d
    ELSE ForButtons(price_buttons, k + 1, ForFormats(Strip(price_buttons[k]), 1, d))

\* lines 129-141: the price block.  priceFail is NoFail, or the number of
\* buttons read before find_elements or a btn.text raised; the error is
\* swallowed (lines 140-141) and prices_dict stays as it was at that point.
NoFail == 0 - 1
Prices(price_buttons, priceFail) ==
    LET read == IF priceFail = NoFail THEN price_buttons
                ELSE SubSeq(price_buttons, 1, priceFail)
    IN ForButtons(read, 1, prices_dict_init)

\* lines 116-122: the rating.  A lookup that raises gives "N/A"; an element
\* found gives its content attribute, which get_attribute gives as None when
\* the attribute is not set.
Rating(meta) == IF meta.found THEN meta.content ELSE NA

\* lines 145-150: the row.
Row(title, rating, link, prices) ==
    [k \in {"Title", "Rating", "URL"} \cup DOMAIN prices |->
        CASE k = "Title"  -> title
          [] k = "Rating" -> rating
          [] k = "URL"    -> link
          [] OTHER        -> prices[k]]

\* lines 100-102: links = links[:max_links]
Truncate(ls, ml) ==
    IF ml = None THEN ls
    ELSE SubSeq(ls, 1, IF ml[1] < Len(ls) THEN ml[1] ELSE Len(ls))

EnterExtract(ls, ml) ==
    /\ epc' = "loop"
    /\ links' = Truncate(ls, ml)
    /\ idx' = 0
    /\ results' = <<>>
    /\ visits' = <<>>
    /\ ecaller' = FALSE

\* lines 155-156: the link's error is caught and logged; the loop goes on.
LinkFailed_Fatal ==
    /\ epc' = "done"
    /\ ecaller' = TRUE
    /\ UNCHANGED results
LinkFailed_Break ==
    /\ epc' = "done"
    /\ UNCHANGED <<ecaller, results>>
LinkFailed ==
    /\ UNCHANGED <<epc, ecaller, results>>

\* lines 104-156: one turn of the for loop, on the next link.  pg is the detail
\* page as the driver finds it: outer is "ok", or the step that raises ("nav":
\* driver.get, "wait": the title wait, "title": the title lookup or read).
ScrapeLink(pages) ==
    /\ epc = "loop"
    /\ idx < Len(links)
    /\ UseDriver
    /\ \E pg \in pages :
          LET link == links[idx + 1] IN
          /\ idx' = idx + 1
          /\ visits' = Append(visits, [link |-> link, pg |-> pg])
          /\ IF pg.outer # "ok"
             THEN LinkFailed
             ELSE /\ results' = Append(results,
                        Row(Strip(pg.title), Rating(pg.meta), link,
                            Prices(pg.buttons, pg.priceFail)))
                  /\ UNCHANGED <<epc, ecaller>>
    /\ UNCHANGED links
    /\ UNCHANGED <<mpc, driver, quits, propagating, startNav, steps, main_links, book_data, csv, saveArg>>
    /\ UNCHANGED collectVars

\* line 158: return results
ReturnResults ==
    /\ epc = "loop"
    /\ idx = Len(links)
    /\ epc' = "done"
    /\ UNCHANGED <<links, idx, results, visits, ecaller>>
    /\ UNCHANGED mainVars
    /\ UNCHANGED collectVars

\* ---- the detail pages of the site
Price5 == <<"$", "5">>
Price3 == <<"$", "3">>
Space == <<" ">>
PagePrices == {Price5, Price3}
LabelledText(fmt, price) == Chars[fmt] \o Space \o price

\* Button texts: "<label> <price>" for the labels that contain or are contained
\* in another and one that is not, a label with no price, a text with no label.
ButtonTexts ==
    { LabelledText("Very Good", Price5), LabelledText("Good", Price3),
      LabelledText("Like New", Price3), LabelledText("New", Price5),
      LabelledText("Paperback", Price5) \o Space,
      Chars["Hardcover"],
      <<"A", "d", "d">> }

Titles == { <<" ", "I", "t", "\n">>, <<"I", "t">> }
RatingMetas ==
    { [found |-> FALSE, content |-> PyNone],
      [found |-> TRUE,  content |-> PyNone],
      [found |-> TRUE,  content |-> <<"4", ".", "5">>] }

PriceFails(buttons) == {NoFail} \cup (0 .. (IF Len(buttons) > 0 THEN Len(buttons) - 1 ELSE 0))

FailedPages ==
    { [outer |-> o, title |-> <<"I", "t">>, meta |-> [found |-> FALSE, content |-> PyNone],
       buttons |-> <<>>, priceFail |-> NoFail] : o \in {"nav", "wait", "title"} }

\* Every detail page within the bounds.
DetailPages ==
    FailedPages \cup
    UNION { { [outer |-> "ok", title |-> ti, meta |-> m, buttons |-> bs, priceFail |-> f]
              : ti \in Titles, m \in RatingMetas, f \in PriceFails(bs) }
            : bs \in SeqsUpTo(ButtonTexts, MaxButtons) }

\* A few detail pages, for the runs over several links.
FewPages ==
    FailedPages \cup
    { [outer |-> "ok", title |-> <<"I", "t">>, meta |-> m, buttons |-> bs, priceFail |-> NoFail]
      : m \in {[found |-> TRUE, content |-> <<"4", ".", "5">>]},
        bs \in {<<>>, <<LabelledText("Good", Price3)>>} }

ScrapeAnyPage == ScrapeLink(DetailPages)
ScrapeFewPages == ScrapeLink(FewPages)

InitCollectIdle ==
    /\ numPages = 1 /\ page = 1 /\ cpc = "idle" /\ max_links = None /\ book_links = <<>>
    /\ exitBy = "" /\ encountered = <<>> /\ sawDup = FALSE /\ clicks = [p \in 1..1 |-> 0]
    /\ enabledSeen = {} /\ timedOut = FALSE

\* scrape_book_details driven alone on one link, over every detail page.
InitRecord ==
    /\ InitMainIdle
    /\ InitCollectIdle
    /\ epc = "loop"
    /\ \E l \in Hrefs : links = Truncate(<<l>>, None)
    /\ idx = 0 /\ results = <<>> /\ visits = <<>> /\ ecaller = FALSE
NextRecord == ScrapeAnyPage \/ ReturnResults
SpecRecord == InitRecord /\ [][NextRecord]_vars

\* scrape_book_details driven alone on any link list and max_links.
InitExtract ==
    /\ InitMainIdle
    /\ InitCollectIdle
    /\ epc = "loop"
    /\ \E ls \in SeqsUpTo({LinkA, LinkB}, MaxLinksIn), ml \in MaxLinksArgs : links = Truncate(ls, ml)
    /\ idx = 0 /\ results = <<>> /\ visits = <<>> /\ ecaller = FALSE
NextExtract == ScrapeFewPages \/ ReturnResults
SpecExtract == InitExtract /\ [][NextExtract]_vars


\* ============================================================== main

\* line 176: make_driver (lines 12-18).  It is called before the try block: when
\* it raises there is no session and nothing to tear down.
MakeDriver ==
    /\ mpc = "start"
    /\ \E created \in BOOLEAN :
          IF created THEN driver' = "live" /\ mpc' = "get"
          ELSE driver' = "none" /\ mpc' = "exit" 
    /\ UNCHANGED <<quits, usedAfterQuit, propagating, startNav, steps, main_links, book_data, csv, saveArg>>
    /\ UNCHANGED <<collectVars, extractVars>>

\* An exception inside the try block of lines 178-190: there is no except
\* clause, the finally clause runs and the exception goes on.
Raised_NoFinally ==
    /\ propagating' = TRUE
    /\ mpc' = "exit"
Raised ==
    /\ propagating' = TRUE
    /\ mpc' = "finally"

\* lines 179-180: driver.get(url)
StartGet ==
    /\ mpc = "get"
    /\ UseDriver
    /\ \E ok \in BOOLEAN :
          IF ok THEN startNav' = "ok" /\ mpc' = "call_collect" /\ UNCHANGED propagating
          ELSE startNav' = "raised" /\ Raised
    /\ UNCHANGED <<driver, quits, steps, main_links, book_data, csv, saveArg>>
    /\ UNCHANGED <<collectVars, extractVars>>

\* line 183: get_book_links(driver) is called, without max_links
CallCollect ==
    /\ mpc = "call_collect"
    /\ mpc' = "collect"
    /\ steps' = Append(steps, "collector")
    /\ EnterCollect(None)
    /\ UNCHANGED <<driver, quits, usedAfterQuit, propagating, startNav, main_links, book_data, csv, saveArg>>
    /\ UNCHANGED extractVars

\* lines 183-184: book_links = the list returned
CollectReturn ==
    /\ mpc = "collect"
    /\ cpc = "done"
    /\ IF exitBy = "raised"
       THEN Raised /\ UNCHANGED main_links
       ELSE main_links' = book_links /\ mpc' = "call_extract" /\ UNCHANGED propagating
    /\ UNCHANGED <<driver, quits, usedAfterQuit, startNav, steps, book_data, csv, saveArg>>
    /\ UNCHANGED <<collectVars, extractVars>>

\* line 187: scrape_book_details(driver, book_links) is called, without max_links
CallExtract ==
    /\ mpc = "call_extract"
    /\ mpc' = "extract"
    /\ steps' = Append(steps, "extractor")
    /\ EnterExtract(main_links, None)
    /\ UNCHANGED <<driver, quits, usedAfterQuit, propagating, startNav, main_links, book_data, csv, saveArg>>
    /\ UNCHANGED collectVars

\* line 187: book_data = the rows returned
ExtractReturn ==
    /\ mpc = "extract"
    /\ epc = "done"
    /\ IF ecaller
       THEN Raised /\ UNCHANGED book_data
       ELSE book_data' = results /\ mpc' = "save" /\ UNCHANGED propagating
    /\ UNCHANGED <<driver, quits, usedAfterQuit, startNav, steps, main_links, csv, saveArg>>
    /\ UNCHANGED <<collectVars, extractVars>>

\* line 167: the keys of the first row, in the order lines 145-150 insert them
KeyOrder == <<"Title", "Rating", "URL">> \o formats
FieldNames(data) == LET InFirst(k) == k \in DOMAIN data[1] IN SelectSeq(KeyOrder, InFirst)

\* lines 169-171: csv.DictWriter.  A key the header lacks is a ValueError; a
\* key the row lacks is written empty, and so is None.
Writable(data, header) == \A k \in DOMAIN data : DOMAIN data[k] \subseteq Range(header)
Cell(row, key) == IF key \notin DOMAIN row \/ row[key] = PyNone THEN <<>> ELSE row[key]
CsvRows(data, header) ==
    [k \in DOMAIN data |-> [c \in DOMAIN header |-> Cell(data[k], header[c])]]

\* line 190 and lines 161-172: save_to_csv(book_data, ...)
SaveToCsv ==
    /\ mpc = "save"
    /\ steps' = Append(steps, "writer")
    /\ saveArg' = Append(saveArg, book_data)
    /\ IF book_data = <<>>
       THEN \* lines 163-165: nothing is written
            /\ mpc' = "finally"
            /\ UNCHANGED <<csv, propagating>>
       ELSE \E ioError \in BOOLEAN :
               LET keys == FieldNames(book_data) IN
               IF ioError \/ ~Writable(book_data, keys)
               THEN Raised /\ UNCHANGED csv
               ELSE /\ csv' = <<keys, CsvRows(book_data, keys)>>
                    /\ mpc' = "finally"
                    /\ UNCHANGED propagating
    /\ UNCHANGED <<driver, quits, usedAfterQuit, startNav, main_links, book_data>>
    /\ UNCHANGED <<collectVars, extractVars>>

\* lines 192-193: finally: driver.quit()
Finally ==
    /\ mpc = "finally"
    /\ UseDriver
    /\ driver' = "quit"
    /\ quits' = quits + 1
    /\ mpc' = "exit"
    /\ UNCHANGED <<propagating, startNav, steps, main_links, book_data, csv, saveArg>>
    /\ UNCHANGED <<collectVars, extractVars>>

\* The site of the whole run: two links, the few detail pages.
ReadListingPageInMain == ReadPage(MainItemHrefs)

InitMain ==
    /\ mpc = "start" /\ driver = "none" /\ quits = 0 /\ usedAfterQuit = FALSE
    /\ propagating = FALSE /\ startNav = "" /\ steps = <<>>
    /\ main_links = <<>> /\ book_data = <<>> /\ csv = <<>> /\ saveArg = <<>>
    /\ InitExtractIdle
    /\ numPages \in 1..MaxPages
    /\ page = 1 /\ cpc = "idle" /\ max_links = None /\ book_links = <<>>
    /\ exitBy = "" /\ encountered = <<>> /\ sawDup = FALSE
    /\ clicks = [p \in 1..numPages |-> 0]
    /\ enabledSeen = {} /\ timedOut = FALSE

NextMain ==
    \/ MakeDriver \/ StartGet
    \/ CallCollect \/ WaitItems \/ ReadListingPageInMain \/ NextButton \/ CollectReturn
    \/ CallExtract \/ ScrapeFewPages \/ ReturnResults \/ ExtractReturn
    \/ SaveToCsv \/ Finally

SpecMain == InitMain /\ [][NextMain]_vars
\* main is one sequential thread and every wait in it has a timeout: a step that
\* can be taken is taken.
FairMain == InitMain /\ [][NextMain]_vars /\ WF_vars(NextMain)


\* ================================================== claims: get_book_links

\* C1: the list get_book_links accumulates (and so the list it returns) holds no
\* string twice, and is exactly the non-empty hrefs read so far, each at the
\* place of its first occurrence.
C1_DedupFirstSeen == NoRepeats(book_links) /\ book_links = encountered

\* C1's case: pages [A, B, C] and [C, D], no max_links, the control of page 2
\* disabled: the call has returned [A, B, C, D], having skipped the second C.
C1_Witness ==
    /\ cpc = "done" /\ exitBy = "last_page" /\ max_links = None
    /\ page = 2 /\ sawDup
    /\ book_links = <<LinkA, LinkB, LinkC, LinkD>>

\* C2: with max_links = N (N >= 0, N = 0 included) the returned list has at
\* most N entries.
C2_AtMostMaxLinks ==
    (cpc = "done" /\ max_links # None) => Len(book_links) <= max_links[1]

\* C6: once the item-presence wait has expired, get_book_links has returned
\* (not raised), with the links of the pages read before, and reads no page
\* and activates no control any more.
C6_TimeoutReturnsPartial ==
    timedOut => /\ cpc = "done"
                /\ exitBy = "error"
                /\ book_links = encountered

\* C6's case: the wait expired on the second page, after links were collected.
C6_Witness ==
    timedOut /\ cpc = "done" /\ page = 2 /\ Len(book_links) >= 2 /\ clicks[1] = 1

\* The pagination, state by state: the control of the last page is never
\* activated, no control is activated twice, every page left behind was left by
\* one activation of its enabled control, and a return at the end of the
\* listing gives all the links read.
C10_Safety ==
    /\ clicks[numPages] = 0
    /\ \A p \in 1..numPages : clicks[p] <= 1
    /\ \A p \in enabledSeen : clicks[p] = 1 /\ page > p
    /\ \A p \in 1..(page - 1) : p \in enabledSeen
    /\ (cpc = "done" /\ exitBy \in {"last_page", "no_next"}) => book_links = encountered

\* C10: without max_links, on a finite listing whose last page has its next
\* control absent or disabled, get_book_links returns at that page all the
\* links collected, without activating its control; on every earlier page with
\* an enabled control it activates the control exactly once and goes on to the
\* next page; and the call ends.
C10_PaginationTerminates ==
    /\ [](max_links = None => C10_Safety)
    /\ (max_links = None => <>(cpc = "done"))

\* C10's case: a two-page listing read to its end, the first control activated
\* once, the second found disabled.
C10_Witness ==
    /\ cpc = "done" /\ max_links = None /\ exitBy = "last_page"
    /\ numPages = 2 /\ page = 2 /\ clicks[1] = 1 /\ clicks[2] = 0
    /\ Len(book_links) >= 2

\* ============================================= claims: scrape_book_details

\* The visits that raised nothing outside the rating and price blocks: the
\* k-th row of results comes from the k-th of them.
IsOkVisit(v) == v.pg.outer = "ok"
OkVisits == SelectSeq(visits, IsOkVisit)

RecordKeys ==
    {"Title", "Rating", "URL", "Hardcover", "Paperback", "Library Binding",
     "Like New", "Very Good", "Good", "Acceptable", "New"}

\* C3: every row of results has exactly the 3 fixed keys and the 8 format keys,
\* whatever buttons the page had and whether or not reading them raised.
C3_SchemaComplete == \A k \in DOMAIN results : DOMAIN results[k] = RecordKeys

\* C3's case: a row from a page with two buttons where reading the second raised.
C3_Witness ==
    /\ Len(results) = 1
    /\ Len(visits[1].pg.buttons) = 2
    /\ visits[1].pg.priceFail = 1
    /\ results[1]["Very Good"] = Price5

\* A button text of the form "<label> <price>", and its label and price.
IsLabelled(text) == \E fmt \in Range(formats), pr \in PagePrices : text = LabelledText(fmt, pr)
LabelOf(text) == CHOOSE fmt \in Range(formats) : \E pr \in PagePrices : text = LabelledText(fmt, pr)
PriceOf(text) == CHOOSE pr \in PagePrices : text = LabelledText(LabelOf(text), pr)

\* C4: on a page whose buttons all read "<label> <price>", with distinct labels
\* and no read error, each label of a button has the price of its own button
\* and every other label is "N/A".
C4_EachButtonItsOwnLabel ==
    \A k \in DOMAIN results :
        LET bs == OkVisits[k].pg.buttons IN
        ( /\ OkVisits[k].pg.priceFail = NoFail
          /\ \A i \in DOMAIN bs : IsLabelled(bs[i])
          /\ \A i, j \in DOMAIN bs : i # j => LabelOf(bs[i]) # LabelOf(bs[j]) )
        => \A fmt \in Range(formats) :
              results[k][fmt] =
                  IF \E i \in DOMAIN bs : LabelOf(bs[i]) = fmt
                  THEN PriceOf(bs[CHOOSE i \in DOMAIN bs : LabelOf(bs[i]) = fmt])
                  ELSE NA

\* C7: a row's Rating is "N/A" exactly when the rating element was missing or
\* had no content attribute, and is the content read otherwise.
C7_RatingNAIffAbsent ==
    \A k \in DOMAIN results :
        LET meta == OkVisits[k].pg.meta
            absent == ~meta.found \/ meta.content = PyNone
        IN /\ (results[k]["Rating"] = NA) <=> absent
           /\ ~absent => results[k]["Rating"] = meta.content

\* C5: no exception leaves scrape_book_details; the links are visited once
\* each in input order; the rows are those of the visits where no step failed,
\* in that order; a failed visit adds no row; at the return every link of the
\* input has been visited.
C5_FailureIsPerLink ==
    /\ ~ecaller
    /\ idx = Len(visits) /\ idx <= Len(links)
    /\ \A k \in DOMAIN visits : visits[k].link = links[k]
    /\ Len(results) = Len(OkVisits)
    /\ \A k \in DOMAIN results : k <= Len(OkVisits) /\ results[k]["URL"] = OkVisits[k].link
    /\ epc = "done" => idx = Len(links)

\* C5's case: two links, the first failed, the second gave the one row returned.
C5_Witness ==
    /\ epc = "done" /\ Len(links) = 2
    /\ visits[1].pg.outer # "ok" /\ visits[2].pg.outer = "ok"
    /\ Len(results) = 1 /\ results[1]["URL"] = links[2]

\* ============================================================ claims: main

\* The teardown, state by state: at most one driver.quit(), no driver call
\* after it, and a run that had a session has ended it when the process exits.
C8_Safety ==
    /\ quits <= 1
    /\ ~usedAfterQuit
    /\ (driver = "quit") <=> (quits = 1)
    /\ (mpc = "exit" /\ driver # "none") => (driver = "quit" /\ quits = 1)

\* C8: the session, once created, is torn down exactly once before the process
\* exits, whatever step failed or succeeded, no step uses the session after
\* the teardown, and the teardown does come.
C8_TornDownOnce ==
    /\ []C8_Safety
    /\ (driver = "live") ~> (driver = "quit" /\ mpc = "exit")

\* C8's case: the writer raised, the session was torn down, the exception went on.
C8_Witness ==
    /\ mpc = "exit" /\ propagating /\ driver = "quit" /\ quits = 1
    /\ steps = <<"collector", "extractor", "writer">>

C9_Safety ==
    /\ \E n \in 0..3 : steps = SubSeq(<<"collector", "extractor", "writer">>, 1, n)
    /\ (mpc = "exit" /\ startNav = "ok") =>
          /\ steps = <<"collector", "extractor", "writer">>
          /\ saveArg = <<results>>
          /\ Len(results) = Len(OkVisits)
          /\ \A k \in DOMAIN results : results[k]["URL"] = OkVisits[k].link
          /\ Len(visits) = Len(book_links)
    /\ startNav = "raised" => (steps = <<>> /\ saveArg = <<>>)

====
